---- MODULE Spec2Model ----
(***************************************************************************)
(* A model of five pieces of opensim-core / Moco:                          *)
(*   - CasOC::Solver::solve and the CasOC::Trapezoidal constructor         *)
(*     (CasOCProblem.cpp, CasOCTrapezoidal.h),                             *)
(*   - the trapezoidal quadrature coefficients,                            *)
(*   - the reference and weight setters of MocoOrientationTrackingCost,    *)
(*   - updatePre40KinematicsStorageFor40MotionType (SimulationUtilities.h),*)
(*   - updatePre40KinematicsFilesFor40MotionType (SimulationUtilities.h).  *)
(* Each piece has its own specification; the variables of the other pieces *)
(* are parked at one value and left unchanged.                             *)
(***************************************************************************)
EXTENDS Integers, Sequences, FiniteSets, TLC

VARIABLES
    \* ---- CasOC::Solver and the Problem it references
    m_transcriptionScheme,  \* Solver::m_transcriptionScheme
    m_numMeshPoints,        \* Solver::getNumMeshPoints()
    m_problem,              \* the Problem (dimensions, bounds, flags)
    lifecycle,              \* position of the current solve() call
    transcription,          \* the unique_ptr<Transcription> of the call
    nlp,                    \* the NLP assembled by Transcription::solve()
    exception,              \* the exception that ended the call, if any
    transcriptionSolution,  \* what Transcription::solve() returned
    returned,               \* what Solver::solve() returned to the caller
    createVarsCalls,        \* entries into createVariablesAndSetBounds(), this call
    transcriptionSolveCalls,\* calls of Transcription::solve(), this call
    nlpSolverInvocations,   \* invocations of the external NLP solver, this call
    calls,                  \* number of solve() calls started so far
    branches,               \* scheme-selection branch taken by each call so far
    \* ---- trapezoidal quadrature
    mesh,                   \* the mesh times t_0 < ... < t_{N-1}
    twiceQuadCoeffs,        \* 2 * w_k for each node (<<>> before computing)
    \* ---- MocoOrientationTrackingCost
    reference_file,         \* property reference_file
    m_states_table,         \* TimeSeriesTable m_states_table
    m_rotation_table,       \* TimeSeriesTable_<Rotation> m_rotation_table
    rotation_weights,       \* property rotation_weights (a MocoWeightSet)
    costCall,               \* the most recent call on the cost and its outcome
    lastReferenceCall,      \* the most recent of the three reference setters
    \* ---- updatePre40KinematicsStorageFor40MotionType
    pre40Model,             \* the Model argument
    kinematics,             \* the Storage argument
    kinResult,              \* the outcome of the call (Pending before it)
    \* ---- updatePre40KinematicsFilesFor40MotionType
    filesModel,             \* the Model argument
    filePaths,              \* the files named by filePaths: path and content
    suffix,                 \* the suffix argument
    nextFile,               \* position of the loop in filePaths
    written,                \* the files written by updatedMotion->print()
    filesStatus             \* "running", "returned", or how the call ended

solverVars == <<m_transcriptionScheme, m_numMeshPoints, m_problem, lifecycle,
                transcription, nlp, exception, transcriptionSolution, returned,
                createVarsCalls, transcriptionSolveCalls, nlpSolverInvocations,
                calls, branches>>
quadVars == <<mesh, twiceQuadCoeffs>>
costVars == <<reference_file, m_states_table, m_rotation_table,
              rotation_weights, costCall, lastReferenceCall>>
kinVars == <<pre40Model, kinematics, kinResult>>
fileVars == <<filesModel, filePaths, suffix, nextFile, written, filesStatus>>
vars == <<solverVars, quadVars, costVars, kinVars, fileVars>>

(***************************************************************************)
(* Bounds of the model.                                                    *)
(***************************************************************************)
MaxMesh == 3
MaxNx == 2
MaxNu == 1
MaxNp == 1
MaxNg == 1
MaxCalls == 2
MaxQuadNodes == 4
MaxWidth == 3
MaxT0 == 1
MaxWeight == 2
MaxCoords == 2
MaxFiles == 2

None == [none |-> TRUE]

(***************************************************************************)
(* CasOC::Solver::solve() and CasOC::Trapezoidal                           *)
(***************************************************************************)
SchemeNames == {"trapezoidal", "hermite-simpson", ""}
RecognizedSchemes == {"trapezoidal"}

Tiers == {"default", "initial", "final"}
VariableClasses == {"states", "controls"}
Intervals == {<<-1, 1>>, <<0, 0>>}
\* Bound profiles of a variable class: one interval per tier.
StateBoundProfiles == [Tiers -> Intervals]
ControlBoundProfiles ==
    { [default |-> <<-5, 5>>, initial |-> <<-5, 5>>, final |-> <<-5, 5>>],
      [default |-> <<-5, 5>>, initial |-> <<-2, 2>>, final |-> <<3, 3>>] }

Problems ==
    [ n_x : 1..MaxNx, n_u : 0..MaxNu, n_p : 0..MaxNp, n_g : 0..MaxNg,
      hasIntegralCost : BOOLEAN,
      enforceConstraintDerivatives : BOOLEAN,
      bounds : [states : StateBoundProfiles, controls : ControlBoundProfiles] ]

SolverStatuses == {"Converged", "IterationLimit", "Infeasible", "Failed"}
TerminalStates == {"SolutionReady", "Failed"}

\* format("Unknown transcription scheme '%s'.", m_transcriptionScheme)
UnknownSchemeMessage(scheme) ==
    <<"Unknown transcription scheme '", scheme, "'.">>

EnforceDerivativesMessage ==
    <<"Enforcing kinematic constraint derivatives ",
      "not supported with trapezoidal transcription.">>

NumGridPoints_HermiteSimpson(numMeshPoints) == 2 * numMeshPoints - 1

\* The fourth argument of the Transcription base constructor.
NumGridPoints(numMeshPoints) == numMeshPoints

\* Transcription(solver, problem, numMeshPoints, numGridPoints): the base
\* object before the derived constructor's body runs.
TranscriptionBase(numMeshPoints) ==
    [ numMeshPoints |-> numMeshPoints,
      numGridPoints |-> NumGridPoints(numMeshPoints),
      variables |-> {},
      bounds |-> <<>> ]

\* The decision variables: a state and a control vector per grid point, the
\* parameter vector, and the quadrature-accumulation variable of an
\* integral cost.
DecisionVariables(numGridPoints, p) ==
    {<<"state", k, i>> : k \in 0..(numGridPoints - 1), i \in 1..p.n_x}
    \cup {<<"control", k, i>> : k \in 0..(numGridPoints - 1), i \in 1..p.n_u}
    \cup {<<"parameter", 0, i>> : i \in 1..p.n_p}
    \cup (IF p.hasIntegralCost THEN {<<"integral", 0, 1>>} ELSE {})

NodeBounds_FinalOnAllLater(numGridPoints, tiers) ==
    [k \in 0..(numGridPoints - 1) |->
        IF k = 0 THEN tiers.initial ELSE tiers.final]

\* The bounds of one variable class: the default on every node, then the
\* initial-tier override on the first node and the final-tier override on
\* the last.
NodeBounds(numGridPoints, tiers) ==
    LET all == [k \in 0..(numGridPoints - 1) |-> tiers.default]
        first == [all EXCEPT ![0] = tiers.initial]
    IN  [first EXCEPT ![numGridPoints - 1] = tiers.final]

CreateVariablesAndSetBounds(t, p) ==
    [t EXCEPT
        !.variables = DecisionVariables(t.numGridPoints, p),
        !.bounds = [c \in VariableClasses |->
                        NodeBounds(t.numGridPoints, p.bounds[c])]]

\* The NLP Transcription::solve() assembles: the variables as built, one
\* defect equation per state and mesh interval, one path-constraint block
\* per node.
BuildNLP(t, p) ==
    [ numVariables |-> Cardinality(t.variables),
      defects |-> {<<"defect", k, i>> :
                      k \in 0..(t.numMeshPoints - 2), i \in 1..p.n_x},
      pathBlocks |-> [k \in 0..(t.numMeshPoints - 1) |-> p.n_g] ]

SolverInit ==
    /\ m_transcriptionScheme \in SchemeNames
    /\ m_numMeshPoints \in 2..MaxMesh
    /\ m_problem \in Problems
    /\ lifecycle = "Unconfigured"
    /\ transcription = None
    /\ nlp = None
    /\ exception = None
    /\ transcriptionSolution = None
    /\ returned = None
    /\ createVarsCalls = 0
    /\ transcriptionSolveCalls = 0
    /\ nlpSolverInvocations = 0
    /\ calls = 1
    /\ branches = <<>>

configVars == <<m_transcriptionScheme, m_numMeshPoints, m_problem>>

SelectScheme_AnyName ==
    /\ lifecycle = "Unconfigured"
    /\ lifecycle' = "SchemeSelected"
    /\ branches' = Append(branches, "trapezoidal")
    /\ UNCHANGED <<configVars, transcription, nlp, exception,
                   transcriptionSolution, returned, createVarsCalls,
                   transcriptionSolveCalls, nlpSolverInvocations, calls>>
    /\ UNCHANGED <<quadVars, costVars, kinVars, fileVars>>

\* if (m_transcriptionScheme == "trapezoidal")
SelectScheme ==
    /\ lifecycle = "Unconfigured"
    /\ m_transcriptionScheme = "trapezoidal"
    /\ lifecycle' = "SchemeSelected"
    /\ branches' = Append(branches, "trapezoidal")
    /\ UNCHANGED <<configVars, transcription, nlp, exception,
                   transcriptionSolution, returned, createVarsCalls,
                   transcriptionSolveCalls, nlpSolverInvocations, calls>>
    /\ UNCHANGED <<quadVars, costVars, kinVars, fileVars>>

ThrowUnknownScheme_Fallback ==
    /\ lifecycle = "Unconfigured"
    /\ m_transcriptionScheme # "trapezoidal"
    /\ lifecycle' = "Failed"
    /\ exception' = [site |-> "Solver::solve",
                     message |-> UnknownSchemeMessage(m_transcriptionScheme)]
    /\ m_transcriptionScheme' = "trapezoidal"
    /\ branches' = Append(branches, "unknown")
    /\ UNCHANGED <<m_numMeshPoints, m_problem, transcription, nlp,
                   transcriptionSolution, returned, createVarsCalls,
                   transcriptionSolveCalls, nlpSolverInvocations, calls>>
    /\ UNCHANGED <<quadVars, costVars, kinVars, fileVars>>

\* else OPENSIM_THROW(Exception, format("Unknown transcription scheme ..."))
ThrowUnknownScheme ==
    /\ lifecycle = "Unconfigured"
    /\ m_transcriptionScheme # "trapezoidal"
    /\ lifecycle' = "Failed"
    /\ exception' = [site |-> "Solver::solve",
                     message |-> UnknownSchemeMessage(m_transcriptionScheme)]
    /\ branches' = Append(branches, "unknown")
    /\ UNCHANGED <<configVars, transcription, nlp,
                   transcriptionSolution, returned, createVarsCalls,
                   transcriptionSolveCalls, nlpSolverInvocations, calls>>
    /\ UNCHANGED <<quadVars, costVars, kinVars, fileVars>>

ConstructTrapezoidal_AllocateFirst ==
    /\ lifecycle = "SchemeSelected"
    /\ createVarsCalls' = createVarsCalls + 1
    /\ IF m_problem.enforceConstraintDerivatives
       THEN /\ lifecycle' = "Failed"
            /\ exception' = [site |-> "Trapezoidal::Trapezoidal",
                             message |-> EnforceDerivativesMessage]
            /\ UNCHANGED transcription
       ELSE /\ lifecycle' = "TranscriptionBuilt"
            /\ transcription' = CreateVariablesAndSetBounds(
                                    TranscriptionBase(m_numMeshPoints), m_problem)
            /\ UNCHANGED exception
    /\ UNCHANGED <<configVars, nlp, transcriptionSolution, returned,
                   transcriptionSolveCalls, nlpSolverInvocations, calls,
                   branches>>
    /\ UNCHANGED <<quadVars, costVars, kinVars, fileVars>>

\* transcription = make_unique<Trapezoidal>(*this, m_problem): the base
\* constructor, the OPENSIM_THROW_IF, then createVariablesAndSetBounds().
\* When the constructor throws, the unique_ptr is never assigned.
ConstructTrapezoidal ==
    /\ lifecycle = "SchemeSelected"
    /\ IF m_problem.enforceConstraintDerivatives
       THEN /\ lifecycle' = "Failed"
            /\ exception' = [site |-> "Trapezoidal::Trapezoidal",
                             message |-> EnforceDerivativesMessage]
            /\ UNCHANGED <<transcription, createVarsCalls>>
       ELSE /\ lifecycle' = "TranscriptionBuilt"
            /\ createVarsCalls' = createVarsCalls + 1
            /\ transcription' = CreateVariablesAndSetBounds(
                                    TranscriptionBase(m_numMeshPoints), m_problem)
            /\ UNCHANGED exception
    /\ UNCHANGED <<configVars, nlp, transcriptionSolution, returned,
                   transcriptionSolveCalls, nlpSolverInvocations, calls,
                   branches>>
    /\ UNCHANGED <<quadVars, costVars, kinVars, fileVars>>

\* transcription->solve(): assembles the NLP, calls the external solver once
\* (blocking) and unpacks its result into a Solution with a status.
TranscriptionSolve ==
    /\ lifecycle = "TranscriptionBuilt"
    /\ \E status \in SolverStatuses :
          transcriptionSolution' =
              [ status |-> status,
                numTimes |-> transcription.numMeshPoints,
                call |-> calls ]
    /\ nlp' = BuildNLP(transcription, m_problem)
    /\ transcriptionSolveCalls' = transcriptionSolveCalls + 1
    /\ nlpSolverInvocations' = nlpSolverInvocations + 1
    /\ lifecycle' = "NLPSolved"
    /\ UNCHANGED <<configVars, transcription, exception, returned,
                   createVarsCalls, calls, branches>>
    /\ UNCHANGED <<quadVars, costVars, kinVars, fileVars>>

\* transcription->solve() when an evaluator returns a vector of unexpected
\* size: the error propagates out of solve() before the external solver runs.
TranscriptionSolveThrows ==
    /\ lifecycle = "TranscriptionBuilt"
    /\ transcriptionSolveCalls' = transcriptionSolveCalls + 1
    /\ exception' = [site |-> "Transcription::solve",
                     message |-> <<"DimensionMismatchError">>]
    /\ lifecycle' = "Failed"
    /\ UNCHANGED <<configVars, transcription, nlp, transcriptionSolution,
                   returned, createVarsCalls, nlpSolverInvocations, calls,
                   branches>>
    /\ UNCHANGED <<quadVars, costVars, kinVars, fileVars>>

ReturnSolution_Retry ==
    /\ lifecycle = "NLPSolved"
    /\ IF transcriptionSolution.status = "Converged"
       THEN /\ returned' = transcriptionSolution
            /\ lifecycle' = "SolutionReady"
       ELSE /\ lifecycle' = "TranscriptionBuilt"
            /\ UNCHANGED returned
    /\ UNCHANGED <<configVars, transcription, nlp, exception,
                   transcriptionSolution, createVarsCalls,
                   transcriptionSolveCalls, nlpSolverInvocations, calls,
                   branches>>
    /\ UNCHANGED <<quadVars, costVars, kinVars, fileVars>>

\* return transcription->solve(): the Solution goes to the caller as it is.
\* A Solution whose status is not Converged is a failed solve.
ReturnSolution ==
    /\ lifecycle = "NLPSolved"
    /\ returned' = transcriptionSolution
    /\ lifecycle' = IF transcriptionSolution.status = "Converged"
                    THEN "SolutionReady" ELSE "Failed"
    /\ UNCHANGED <<configVars, transcription, nlp, exception,
                   transcriptionSolution, createVarsCalls,
                   transcriptionSolveCalls, nlpSolverInvocations, calls,
                   branches>>
    /\ UNCHANGED <<quadVars, costVars, kinVars, fileVars>>

\* The caller calls solve() again on the same Solver and Problem; the
\* locals of the previous call are gone.
NewSolveCall ==
    /\ lifecycle \in TerminalStates
    /\ calls < MaxCalls
    /\ calls' = calls + 1
    /\ lifecycle' = "Unconfigured"
    /\ transcription' = None
    /\ nlp' = None
    /\ exception' = None
    /\ transcriptionSolution' = None
    /\ returned' = None
    /\ createVarsCalls' = 0
    /\ transcriptionSolveCalls' = 0
    /\ nlpSolverInvocations' = 0
    /\ UNCHANGED <<configVars, branches>>
    /\ UNCHANGED <<quadVars, costVars, kinVars, fileVars>>

SolverNext ==
    \/ SelectScheme
    \/ ThrowUnknownScheme
    \/ ConstructTrapezoidal
    \/ TranscriptionSolve
    \/ TranscriptionSolveThrows
    \/ ReturnSolution
    \/ NewSolveCall

(***************************************************************************)
(* Trapezoidal quadrature coefficients                                     *)
(***************************************************************************)
RECURSIVE SeqSum(_)
SeqSum(s) == IF s = <<>> THEN 0 ELSE Head(s) + SeqSum(Tail(s))

\* The mesh with first time t0 and the given interval widths.
RECURSIVE MeshFrom(_, _)
MeshFrom(t0, widths) ==
    IF widths = <<>> THEN <<t0>>
    ELSE <<t0>> \o MeshFrom(t0 + Head(widths), Tail(widths))

Meshes ==
    { MeshFrom(t0, widths) :
        t0 \in 0..MaxT0,
        widths \in UNION { [1..n -> 1..MaxWidth] : n \in 1..(MaxQuadNodes - 1) } }

\* h_k = t_{k+1} - t_k; the sequence index of node k is k + 1.
MeshInterval(m, k) == m[k + 2] - m[k + 1]

TwiceQuadCoeffs_EndpointsFullWidth(m) ==
    LET N == Len(m)
    IN  [j \in 1..N |->
            IF j = 1 THEN 2 * MeshInterval(m, 0)
            ELSE IF j = N THEN 2 * MeshInterval(m, N - 2)
            ELSE MeshInterval(m, j - 2) + MeshInterval(m, j - 1)]

\* Twice the quadrature weights (so that halves stay integers):
\* w_0 = h_0/2, w_{N-1} = h_{N-2}/2, interior w_k = (h_{k-1} + h_k)/2.
TwiceQuadCoeffs(m) ==
    LET N == Len(m)
    IN  [j \in 1..N |->
            IF j = 1 THEN MeshInterval(m, 0)
            ELSE IF j = N THEN MeshInterval(m, N - 2)
            ELSE MeshInterval(m, j - 2) + MeshInterval(m, j - 1)]

QuadInit ==
    /\ mesh \in Meshes
    /\ twiceQuadCoeffs = <<>>

CreateQuadratureCoefficients ==
    /\ twiceQuadCoeffs = <<>>
    /\ twiceQuadCoeffs' = TwiceQuadCoeffs(mesh)
    /\ UNCHANGED mesh
    /\ UNCHANGED <<solverVars, costVars, kinVars, fileVars>>

QuadNext == CreateQuadratureCoefficients

(***************************************************************************)
(* MocoOrientationTrackingCost                                             *)
(***************************************************************************)
FilePaths == {"", "states.sto", "walk.csv"}
StatesTables == {<<>>, <<"states_a">>, <<"states_b">>}
RotationTables == {<<>>, <<"rotations_a">>, <<"rotations_b">>}

\* The frames of the model the cost is used with, and the names a caller
\* may pass.
KnownFrames == {"/bodyset/torso", "/bodyset/pelvis"}
FrameNames == KnownFrames \cup {"/bodyset/no_such_frame"}
Weights == 1..MaxWeight
WeightSets ==
    { <<>>,
      <<[name |-> "/bodyset/torso", weight |-> 1]>>,
      <<[name |-> "/bodyset/pelvis", weight |-> 2],
        [name |-> "/bodyset/torso", weight |-> 2]>> }

\* MocoWeightSet::contains(name)
Contains(ws, name) == \E i \in DOMAIN ws : ws[i].name = name

\* Set::getIndex(name): the first entry of that name.
IndexOf(ws, name) ==
    CHOOSE i \in DOMAIN ws :
        /\ ws[i].name = name
        /\ \A j \in DOMAIN ws : ws[j].name = name => i <= j

CostInit ==
    /\ reference_file = ""
    /\ m_states_table = <<>>
    /\ m_rotation_table = <<>>
    /\ rotation_weights = <<>>
    /\ costCall = None
    /\ lastReferenceCall = None

setStatesReferenceFile(filepath) ==
    /\ m_states_table' = <<>>
    /\ m_rotation_table' = <<>>
    /\ reference_file' = filepath
    /\ costCall' = [op |-> "setStatesReferenceFile", arg |-> filepath,
                    outcome |-> "returned"]
    /\ lastReferenceCall' = [op |-> "setStatesReferenceFile", arg |-> filepath]
    /\ UNCHANGED rotation_weights
    /\ UNCHANGED <<solverVars, quadVars, kinVars, fileVars>>

setStatesReference_KeepsRotations(ref) ==
    /\ reference_file' = ""
    /\ m_states_table' = ref
    /\ costCall' = [op |-> "setStatesReference", arg |-> ref,
                    outcome |-> "returned"]
    /\ lastReferenceCall' = [op |-> "setStatesReference", arg |-> ref]
    /\ UNCHANGED <<m_rotation_table, rotation_weights>>
    /\ UNCHANGED <<solverVars, quadVars, kinVars, fileVars>>

setStatesReference(ref) ==
    /\ reference_file' = ""
    /\ m_rotation_table' = <<>>
    /\ m_states_table' = ref
    /\ costCall' = [op |-> "setStatesReference", arg |-> ref,
                    outcome |-> "returned"]
    /\ lastReferenceCall' = [op |-> "setStatesReference", arg |-> ref]
    /\ UNCHANGED rotation_weights
    /\ UNCHANGED <<solverVars, quadVars, kinVars, fileVars>>

setRotationReference(ref) ==
    /\ m_states_table' = <<>>
    /\ reference_file' = ""
    /\ m_rotation_table' = ref
    /\ costCall' = [op |-> "setRotationReference", arg |-> ref,
                    outcome |-> "returned"]
    /\ lastReferenceCall' = [op |-> "setRotationReference", arg |-> ref]
    /\ UNCHANGED rotation_weights
    /\ UNCHANGED <<solverVars, quadVars, kinVars, fileVars>>

setWeight(frameName, weight) ==
    /\ IF Contains(rotation_weights, frameName)
       THEN rotation_weights' =
                [rotation_weights EXCEPT
                    ![IndexOf(rotation_weights, frameName)].weight = weight]
       ELSE rotation_weights' =
                Append(rotation_weights,
                       [name |-> frameName, weight |-> weight])
    /\ costCall' = [op |-> "setWeight", frameName |-> frameName,
                    weight |-> weight, before |-> rotation_weights,
                    outcome |-> "returned"]
    /\ UNCHANGED <<reference_file, m_states_table, m_rotation_table,
                   lastReferenceCall>>
    /\ UNCHANGED <<solverVars, quadVars, kinVars, fileVars>>

setWeightSet(weightSet) ==
    /\ rotation_weights' = weightSet
    /\ costCall' = [op |-> "setWeightSet", arg |-> weightSet,
                    outcome |-> "returned"]
    /\ UNCHANGED <<reference_file, m_states_table, m_rotation_table,
                   lastReferenceCall>>
    /\ UNCHANGED <<solverVars, quadVars, kinVars, fileVars>>

CostNext ==
    \/ \E filepath \in FilePaths : setStatesReferenceFile(filepath)
    \/ \E ref \in StatesTables : setStatesReference(ref)
    \/ \E ref \in RotationTables : setRotationReference(ref)
    \/ \E frameName \in FrameNames, weight \in Weights :
          setWeight(frameName, weight)
    \/ \E weightSet \in WeightSets : setWeightSet(weightSet)

(***************************************************************************)
(* updatePre40KinematicsStorageFor40MotionType                             *)
(***************************************************************************)
UpToDateVersion == 30415
Pending == [kind |-> "pending"]
DocumentFileVersions == {30000, UpToDateVersion - 1, UpToDateVersion, 40000}

AllCoordinateNames == <<"knee_angle_r", "knee_angle_r_beta", "ankle_angle_r",
                        "hip_flexion_r">>
CoordinateName(i) == AllCoordinateNames[i]
OldMotionTypes == {"Undefined", "Rotational", "Coupled"}
MotionTypes == {"Rotational", "Coupled"}

\* A model with n coordinates.
ModelsWith(n) ==
    { [documentFileVersion |-> v, coordinates |-> cs] :
        v \in DocumentFileVersions,
        cs \in { [i \in 1..n |-> [name |-> CoordinateName(i),
                                  oldMotionType |-> old[i],
                                  motionType |-> new[i]]] :
                    old \in [1..n -> OldMotionTypes],
                    new \in [1..n -> MotionTypes] } }
Models == UNION { ModelsWith(n) : n \in 0..MaxCoords }

\* A storage: its inDegrees flag and its data columns, each with the number
\* of times its values have been multiplied by SimTK_DTR.
RECURSIVE ColumnsOf(_, _)
ColumnsOf(present, i) ==
    IF i > MaxCoords THEN <<>>
    ELSE (IF CoordinateName(i) \in present
          THEN <<[label |-> CoordinateName(i), timesDTR |-> 0]>>
          ELSE <<>>) \o ColumnsOf(present, i + 1)
Storages ==
    { [inDegrees |-> d, columns |-> ColumnsOf(present, 1)] :
        d \in BOOLEAN,
        present \in SUBSET { CoordinateName(i) : i \in 1..MaxCoords } }

\* The coordinates whose user-specified pre-4.0 motion type is defined and
\* differs from the motion type.
ProblemCoords(model) ==
    SelectSeq(model.coordinates,
              LAMBDA c : /\ c.oldMotionType # "Undefined"
                         /\ c.oldMotionType # c.motionType)

\* Storage::getStateIndex(name): the column of that label, or -1.
GetStateIndex(storage, name) ==
    IF \E ix \in DOMAIN storage.columns : storage.columns[ix].label = name
    THEN CHOOSE ix \in DOMAIN storage.columns :
            storage.columns[ix].label = name
    ELSE -1

\* Storage::multiplyColumn(ix, SimTK_DTR)
MultiplyColumnByDTR(storage, ix) ==
    [storage EXCEPT !.columns[ix].timesDTR = @ + 1]

\* The loop over problemCoords on a clone of the kinematics.
RECURSIVE ConvertColumns(_, _)
ConvertColumns(storage, coords) ==
    IF coords = <<>> THEN storage
    ELSE LET ix == GetStateIndex(storage, Head(coords).name)
         IN  ConvertColumns(
                 IF ix < 0 THEN storage ELSE MultiplyColumnByDTR(storage, ix),
                 Tail(coords))

\* The outcomes of one call. The first branch is a "return;" in a function
\* that returns a unique_ptr: no value is returned, and the caller reads a
\* null pointer or a pointer to nothing.
UpdatePre40KinematicsStorage(model, storage) ==
    IF ~storage.inDegrees
    THEN { [kind |-> "nullptr"], [kind |-> "indeterminate"] }
    ELSE IF model.documentFileVersion >= UpToDateVersion
    THEN { [kind |-> "exception"] }
    ELSE IF Len(ProblemCoords(model)) = 0
    THEN { [kind |-> "nullptr"] }
    ELSE { [kind |-> "storage",
            storage |-> ConvertColumns(storage, ProblemCoords(model))] }

KinInit ==
    /\ pre40Model \in Models
    /\ kinematics \in Storages
    /\ kinResult = Pending

CallUpdatePre40KinematicsStorage ==
    /\ kinResult = Pending
    /\ kinResult' \in UpdatePre40KinematicsStorage(pre40Model, kinematics)
    /\ UNCHANGED <<pre40Model, kinematics>>
    /\ UNCHANGED <<solverVars, quadVars, costVars, fileVars>>

KinNext == CallUpdatePre40KinematicsStorage

(***************************************************************************)
(* updatePre40KinematicsFilesFor40MotionType                               *)
(***************************************************************************)
\* Paths are sequences of characters.
Directories == { <<>>, <<"d", "/">>, <<"d", ".", "v", "/">> }
FileNames == { <<"m", ".", "t">>, <<"m">> }
Paths == { dir \o name : dir \in Directories, name \in FileNames }
Suffixes == { <<>>, <<"_", "u">> }

\* The content of a motion file: a storage holding every coordinate's column.
FileStorages ==
    { [inDegrees |-> d,
       columns |-> ColumnsOf({ CoordinateName(i) : i \in 1..MaxCoords }, 1)] :
        d \in BOOLEAN }
Files == [path : Paths, storage : FileStorages]
FileLists == UNION { [1..n -> Files] : n \in 0..MaxFiles }
FileModels == ModelsWith(0) \cup ModelsWith(1)

\* std::string::npos, as a position no string has.
Npos == 0

\* std::string::rfind(ch): the position (from 1) of the last ch, or Npos.
RFind(str, ch) ==
    IF \E i \in DOMAIN str : str[i] = ch
    THEN CHOOSE i \in DOMAIN str :
            /\ str[i] = ch
            /\ \A j \in DOMAIN str : str[j] = ch => j <= i
    ELSE Npos

\* outFilePath: filePath itself for an empty suffix; otherwise
\* filePath.substr(0, back) + suffix + filePath.substr(back) with
\* back = filePath.rfind("."). substr(npos) throws std::out_of_range.
OutFilePath(filePath, sfx) ==
    IF Len(sfx) = 0
    THEN [kind |-> "path", path |-> filePath]
    ELSE LET back == RFind(filePath, ".")
         IN  IF back = Npos
             THEN [kind |-> "std::out_of_range"]
             ELSE [kind |-> "path",
                   path |-> SubSeq(filePath, 1, back - 1) \o sfx
                            \o SubSeq(filePath, back, Len(filePath))]

FilesInit ==
    /\ filesModel \in FileModels
    /\ filePaths \in FileLists
    /\ suffix \in Suffixes
    /\ nextFile = 1
    /\ written = <<>>
    /\ filesStatus = "running"

\* Storage motion(filePath); updatePre40KinematicsStorageFor40MotionType(...)
InLoop == filesStatus = "running" /\ nextFile <= Len(filePaths)
FileOutcomes ==
    UpdatePre40KinematicsStorage(filesModel, filePaths[nextFile].storage)

\* if (updatedMotion == nullptr) continue;
SkipFile ==
    /\ InLoop
    /\ [kind |-> "nullptr"] \in FileOutcomes
    /\ nextFile' = nextFile + 1
    /\ UNCHANGED <<filesModel, filePaths, suffix, written, filesStatus>>
    /\ UNCHANGED <<solverVars, quadVars, costVars, kinVars>>

\* The call throws Exception: it leaves the loop and the function.
FileCallThrows ==
    /\ InLoop
    /\ [kind |-> "exception"] \in FileOutcomes
    /\ filesStatus' = "Exception"
    /\ UNCHANGED <<filesModel, filePaths, suffix, nextFile, written>>
    /\ UNCHANGED <<solverVars, quadVars, costVars, kinVars>>

\* The call returned no value and updatedMotion is not null: the function
\* goes on to use a pointer to nothing.
FileCallIndeterminate ==
    /\ InLoop
    /\ [kind |-> "indeterminate"] \in FileOutcomes
    /\ filesStatus' = "undefined"
    /\ UNCHANGED <<filesModel, filePaths, suffix, nextFile, written>>
    /\ UNCHANGED <<solverVars, quadVars, costVars, kinVars>>

\* The call returned a storage: outFilePath, then updatedMotion->print().
WriteFile ==
    /\ InLoop
    /\ \E result \in FileOutcomes :
          /\ result.kind = "storage"
          /\ LET out == OutFilePath(filePaths[nextFile].path, suffix)
             IN  IF out.kind = "path"
                 THEN /\ written' = Append(written,
                                       [from |-> nextFile,
                                        path |-> out.path,
                                        storage |-> result.storage])
                      /\ nextFile' = nextFile + 1
                      /\ UNCHANGED filesStatus
                 ELSE /\ filesStatus' = out.kind
                      /\ UNCHANGED <<written, nextFile>>
    /\ UNCHANGED <<filesModel, filePaths, suffix>>
    /\ UNCHANGED <<solverVars, quadVars, costVars, kinVars>>

\* The end of the loop.
ReturnFromFiles ==
    /\ filesStatus = "running"
    /\ nextFile > Len(filePaths)
    /\ filesStatus' = "returned"
    /\ UNCHANGED <<filesModel, filePaths, suffix, nextFile, written>>
    /\ UNCHANGED <<solverVars, quadVars, costVars, kinVars>>

FilesNext ==
    \/ SkipFile
    \/ FileCallThrows
    \/ FileCallIndeterminate
    \/ WriteFile
    \/ ReturnFromFiles

(***************************************************************************)
(* Specifications                                                          *)
(***************************************************************************)
SolverParked ==
    /\ m_transcriptionScheme = "trapezoidal"
    /\ m_numMeshPoints = 2
    /\ m_problem = None
    /\ lifecycle = "Unconfigured"
    /\ transcription = None
    /\ nlp = None
    /\ exception = None
    /\ transcriptionSolution = None
    /\ returned = None
    /\ createVarsCalls = 0
    /\ transcriptionSolveCalls = 0
    /\ nlpSolverInvocations = 0
    /\ calls = 1
    /\ branches = <<>>

QuadParked == mesh = <<>> /\ twiceQuadCoeffs = <<>>
CostParked ==
    /\ reference_file = ""
    /\ m_states_table = <<>>
    /\ m_rotation_table = <<>>
    /\ rotation_weights = <<>>
    /\ costCall = None
    /\ lastReferenceCall = None
KinParked == pre40Model = None /\ kinematics = None /\ kinResult = Pending
FilesParked ==
    /\ filesModel = None
    /\ filePaths = <<>>
    /\ suffix = <<>>
    /\ nextFile = 1
    /\ written = <<>>
    /\ filesStatus = "running"

SolverSpecInit ==
    SolverInit /\ QuadParked /\ CostParked /\ KinParked /\ FilesParked
SolverSpec == SolverSpecInit /\ [][SolverNext]_vars

QuadSpecInit ==
    SolverParked /\ QuadInit /\ CostParked /\ KinParked /\ FilesParked
QuadSpec == QuadSpecInit /\ [][QuadNext]_vars

CostSpecInit ==
    SolverParked /\ QuadParked /\ CostInit /\ KinParked /\ FilesParked
CostSpec == CostSpecInit /\ [][CostNext]_vars

KinSpecInit ==
    SolverParked /\ QuadParked /\ CostParked /\ KinInit /\ FilesParked
KinSpec == KinSpecInit /\ [][KinNext]_vars

FilesSpecInit ==
    SolverParked /\ QuadParked /\ CostParked /\ KinParked /\ FilesInit
FilesSpec == FilesSpecInit /\ [][FilesNext]_vars

(***************************************************************************)
(* Properties of Solver::solve() and Trapezoidal, checked under SolverSpec *)
(***************************************************************************)
IntegralVariables(p) == IF p.hasIntegralCost THEN 1 ELSE 0

\* C1: with a scheme name outside the recognized set, a solve() call only
\* ever fails: it ends in Failed with the exception thrown by Solver::solve
\* whose message carries the configured name, and neither a Transcription
\* nor an NLP exists, createVariablesAndSetBounds() and
\* Transcription::solve() are not entered and the external NLP solver is
\* not invoked.
C1_UnknownSchemeFails ==
    m_transcriptionScheme \notin RecognizedSchemes =>
        /\ lifecycle \in {"Unconfigured", "Failed"}
        /\ transcription = None
        /\ nlp = None
        /\ createVarsCalls = 0
        /\ transcriptionSolveCalls = 0
        /\ nlpSolverInvocations = 0
        /\ lifecycle = "Failed" =>
              /\ exception # None
              /\ exception.site = "Solver::solve"
              /\ \E i \in DOMAIN exception.message :
                    exception.message[i] = m_transcriptionScheme
              /\ returned = None

C1_Witness ==
    /\ m_transcriptionScheme = "hermite-simpson"
    /\ lifecycle = "Failed"
    /\ exception # None

\* C2: for every mesh size, constructing Trapezoidal for a Problem with
\* enforceConstraintDerivatives set fails with the constructor's exception
\* and createVariablesAndSetBounds() is never entered (no variable exists);
\* with the flag clear, a call that got past construction has entered
\* createVariablesAndSetBounds() exactly once and holds the Transcription.
C2_EnforceDerivativesRejected ==
    m_transcriptionScheme = "trapezoidal" =>
        /\ m_problem.enforceConstraintDerivatives =>
              /\ lifecycle \in {"Unconfigured", "SchemeSelected", "Failed"}
              /\ createVarsCalls = 0
              /\ transcription = None
              /\ lifecycle = "Failed" =>
                    /\ exception # None
                    /\ exception.site = "Trapezoidal::Trapezoidal"
        /\ (~m_problem.enforceConstraintDerivatives
            /\ lifecycle \notin {"Unconfigured", "SchemeSelected"}) =>
              /\ createVarsCalls = 1
              /\ transcription # None
              /\ exception # None => exception.site # "Trapezoidal::Trapezoidal"

C2_Witness ==
    /\ m_transcriptionScheme = "trapezoidal"
    /\ m_problem.enforceConstraintDerivatives
    /\ m_numMeshPoints = MaxMesh
    /\ lifecycle = "Failed"
    /\ exception # None

\* One step of the lifecycle chain of the specification.
LifecycleSuccessor(from, to) ==
    \/ from = "Unconfigured" /\ to = "SchemeSelected"
    \/ from = "SchemeSelected" /\ to = "TranscriptionBuilt"
    \/ from = "TranscriptionBuilt" /\ to = "NLPSolved"
    \/ from = "NLPSolved" /\ to \in {"SolutionReady", "Failed"}

\* C3 as stated: within one solve() call every change of lifecycle state is
\* one step of the chain Unconfigured -> SchemeSelected ->
\* TranscriptionBuilt -> NLPSolved -> {SolutionReady, Failed}; no state is
\* skipped.
C3_NoStateSkipped ==
    [][(calls' = calls /\ lifecycle' # lifecycle)
          => LifecycleSuccessor(lifecycle, lifecycle')]_vars

\* C3 amended: within one solve() call every change of lifecycle state is
\* either one step of the chain or a jump from a non-terminal state to
\* Failed, so no state is revisited and SolutionReady and Failed are
\* terminal; Transcription::solve() is called at most once per call (and
\* the external solver at most once); SolutionReady is reached only with
\* the Transcription built and solved, and the Solution returned is the one
\* Transcription::solve() returned.
C3_LifecycleOrder ==
    /\ [][(calls' = calls /\ lifecycle' # lifecycle) =>
            \/ LifecycleSuccessor(lifecycle, lifecycle')
            \/ lifecycle \notin TerminalStates /\ lifecycle' = "Failed"]_vars
    /\ [](transcriptionSolveCalls <= 1 /\ nlpSolverInvocations <= 1)
    /\ [](lifecycle = "SolutionReady" =>
            /\ transcription # None
            /\ nlp # None
            /\ transcriptionSolveCalls = 1
            /\ transcriptionSolution # None
            /\ returned = transcriptionSolution)

C3_Witness ==
    /\ lifecycle = "SolutionReady"
    /\ returned # None
    /\ returned.status = "Converged"
    /\ returned.call = 2

\* C4: the Transcription has as many grid points as mesh points and
\* N*(n_x+n_u)+n_p decision variables, plus one when the Problem has an
\* integral cost; the NLP has that many variables, (N-1)*n_x defect
\* equations and one path-constraint block of size n_g per node.
C4_NLPDimensions ==
    LET N == m_numMeshPoints
        p == m_problem
        expected == N * (p.n_x + p.n_u) + p.n_p + IntegralVariables(p)
    IN  /\ transcription # None =>
              /\ transcription.numMeshPoints = N
              /\ transcription.numGridPoints = transcription.numMeshPoints
              /\ Cardinality(transcription.variables) = expected
        /\ nlp # None =>
              /\ nlp.numVariables = expected
              /\ Cardinality(nlp.defects) = (N - 1) * p.n_x
              /\ DOMAIN nlp.pathBlocks = 0..(N - 1)
              /\ \A k \in DOMAIN nlp.pathBlocks : nlp.pathBlocks[k] = p.n_g

C4_Witness ==
    /\ nlp # None
    /\ m_numMeshPoints = MaxMesh
    /\ m_problem.n_x = MaxNx
    /\ m_problem.n_u = MaxNu
    /\ m_problem.n_p = MaxNp
    /\ m_problem.n_g = MaxNg
    /\ m_problem.hasIntegralCost

\* C6: once createVariablesAndSetBounds() has run, in every variable class
\* node 0 carries the initial-tier bound, node N-1 the final-tier bound and
\* every node strictly between them the default bound.
C6_BoundTiers ==
    transcription # None =>
        \A c \in VariableClasses :
            /\ DOMAIN transcription.bounds[c] = 0..(m_numMeshPoints - 1)
            /\ \A k \in 0..(m_numMeshPoints - 1) :
                  transcription.bounds[c][k] =
                      IF k = 0 THEN m_problem.bounds[c].initial
                      ELSE IF k = m_numMeshPoints - 1
                           THEN m_problem.bounds[c].final
                           ELSE m_problem.bounds[c].default

C6_Witness ==
    /\ transcription # None
    /\ m_numMeshPoints >= 3
    /\ \A c \in VariableClasses :
          /\ m_problem.bounds[c].default # m_problem.bounds[c].initial
          /\ m_problem.bounds[c].default # m_problem.bounds[c].final
          /\ transcription.bounds[c][1] = m_problem.bounds[c].default

\* C7: no step of any solve() call, successful or failing, changes the
\* Problem, the scheme name or the mesh-point count, and every solve() call
\* on the same Solver takes the scheme-selection branch the first one took.
C7_SolveLeavesConfiguration ==
    /\ [][/\ m_problem' = m_problem
          /\ m_transcriptionScheme' = m_transcriptionScheme
          /\ m_numMeshPoints' = m_numMeshPoints]_vars
    /\ [](\A i \in DOMAIN branches : branches[i] = branches[1])

C7_Witness ==
    /\ Len(branches) = 2
    /\ branches[1] = "unknown"
    /\ lifecycle = "Failed"
    /\ calls = 2

(***************************************************************************)
(* Property of the quadrature coefficients, checked under QuadSpec         *)
(***************************************************************************)
IsUniform(m) ==
    \A k \in 0..(Len(m) - 2) : MeshInterval(m, k) = MeshInterval(m, 0)

\* C5: for every uniform mesh with N >= 2 nodes (N = 2 included) there is
\* one weight per node and the weights sum to t_{N-1} - t_0; stated on
\* twice the weights: they sum to twice the horizon length.
C5_WeightsSumToHorizon ==
    (twiceQuadCoeffs # <<>> /\ IsUniform(mesh)) =>
        /\ Len(twiceQuadCoeffs) = Len(mesh)
        /\ SeqSum(twiceQuadCoeffs) = 2 * (mesh[Len(mesh)] - mesh[1])

C5_Witness ==
    /\ Len(mesh) = 2
    /\ twiceQuadCoeffs # <<>>
    /\ twiceQuadCoeffs[1] = mesh[2] - mesh[1]
    /\ twiceQuadCoeffs[2] = mesh[2] - mesh[1]

(***************************************************************************)
(* Properties of MocoOrientationTrackingCost, checked under CostSpec       *)
(***************************************************************************)
NonEmptySources ==
    (IF reference_file # "" THEN {"reference_file"} ELSE {})
    \cup (IF m_states_table # <<>> THEN {"states"} ELSE {})
    \cup (IF m_rotation_table # <<>> THEN {"rotations"} ELSE {})

\* C8: after any sequence of calls, at most one of reference_file, the
\* states table and the rotation table is non-empty; the most recent
\* reference setter left its own source equal to its argument and the
\* other two sources empty.
C8_OneReferenceSource ==
    /\ Cardinality(NonEmptySources) <= 1
    /\ lastReferenceCall = None => NonEmptySources = {}
    /\ lastReferenceCall # None =>
          /\ lastReferenceCall.op = "setStatesReferenceFile" =>
                /\ reference_file = lastReferenceCall.arg
                /\ m_states_table = <<>>
                /\ m_rotation_table = <<>>
          /\ lastReferenceCall.op = "setStatesReference" =>
                /\ m_states_table = lastReferenceCall.arg
                /\ reference_file = ""
                /\ m_rotation_table = <<>>
          /\ lastReferenceCall.op = "setRotationReference" =>
                /\ m_rotation_table = lastReferenceCall.arg
                /\ reference_file = ""
                /\ m_states_table = <<>>

C8_Witness ==
    /\ lastReferenceCall # None
    /\ lastReferenceCall.op = "setStatesReference"
    /\ lastReferenceCall.arg # <<>>
    /\ costCall.op = "setWeight"
    /\ NonEmptySources = {"states"}

\* C9 as stated: a setWeight() call for an unknown frame throws and leaves
\* the rotation weight set as it was.
C9_UnknownFrameThrows ==
    (costCall # None /\ costCall.op = "setWeight"
        /\ costCall.frameName \notin KnownFrames) =>
            /\ costCall.outcome = "threw"
            /\ rotation_weights = costCall.before

\* C9, the part about a frame that already has a weight: the call keeps the
\* number of entries and the entry of that frame carries the new weight.
C9_ExistingWeightReplaced ==
    (costCall # None /\ costCall.op = "setWeight"
        /\ Contains(costCall.before, costCall.frameName)) =>
            /\ Len(rotation_weights) = Len(costCall.before)
            /\ rotation_weights[IndexOf(rotation_weights, costCall.frameName)].weight
                  = costCall.weight

(***************************************************************************)
(* Property of updatePre40KinematicsStorageFor40MotionType, under KinSpec  *)
(***************************************************************************)
NoUpdateNecessary(model, storage) ==
    \/ ~storage.inDegrees
    \/ model.documentFileVersion >= UpToDateVersion
    \/ Len(ProblemCoords(model)) = 0

\* C10 as stated: the call returns nullptr whenever no update is necessary
\* (kinematics not in degrees, model version up to date, or no inconsistent
\* coordinate), and a storage only when an inconsistent coordinate exists.
C10_NullptrWhenNoUpdate ==
    kinResult # Pending =>
        /\ NoUpdateNecessary(pre40Model, kinematics) =>
              kinResult.kind = "nullptr"
        /\ kinResult.kind = "storage" => Len(ProblemCoords(pre40Model)) > 0

\* C10, the branches that do return: with kinematics in degrees and an
\* older model, the call returns nullptr exactly when no coordinate is
\* inconsistent and a storage otherwise.
C10_OlderModelInDegrees ==
    (kinResult # Pending /\ kinematics.inDegrees
        /\ pre40Model.documentFileVersion < UpToDateVersion) =>
            IF Len(ProblemCoords(pre40Model)) = 0
            THEN kinResult.kind = "nullptr"
            ELSE kinResult.kind = "storage"

(***************************************************************************)
(* Properties of updatePre40KinematicsFilesFor40MotionType, under          *)
(* FilesSpec                                                               *)
(***************************************************************************)
NeedsUpdate(i) == ~NoUpdateNecessary(filesModel, filePaths[i].storage)
WrittenFrom(i) == { k \in DOMAIN written : written[k].from = i }
WrittenInOrder ==
    \A k, l \in DOMAIN written : k < l => written[k].from < written[l].from

\* C11 as stated: the loop goes through filePaths in order and no file
\* stops it; every file it has passed has exactly one converted file
\* written when it needs updating and none when it does not.
C11_EveryFileProcessed ==
    /\ filesStatus \in {"running", "returned"}
    /\ WrittenInOrder
    /\ \A i \in 1..(nextFile - 1) :
          Cardinality(WrittenFrom(i)) = IF NeedsUpdate(i) THEN 1 ELSE 0

\* C11, where the per-file call returns: with a model older than the
\* up-to-date version and every file in degrees, no file that needs no
\* update stops the loop, and every file passed has one converted file
\* written exactly when it needs updating.
C11_OlderModelFilesInDegrees ==
    (/\ filesModel.documentFileVersion < UpToDateVersion
     /\ \A i \in DOMAIN filePaths : filePaths[i].storage.inDegrees) =>
        /\ filesStatus \in {"running", "returned", "std::out_of_range"}
        /\ filesStatus = "std::out_of_range" => NeedsUpdate(nextFile)
        /\ WrittenInOrder
        /\ \A i \in 1..(nextFile - 1) :
              Cardinality(WrittenFrom(i)) = IF NeedsUpdate(i) THEN 1 ELSE 0

\* The directory part of a path ends at its last '/'; the extension of the
\* file name starts at the last '.' after that.
FileNameStart(path) == RFind(path, "/") + 1
ExtensionStart(path) ==
    LET name == SubSeq(path, FileNameStart(path), Len(path))
        dot == RFind(name, ".")
    IN  IF dot = Npos THEN Len(path) + 1 ELSE FileNameStart(path) + dot - 1
HasExtension(path) == ExtensionStart(path) <= Len(path)

\* The path the documentation promises: the suffix goes immediately before
\* the extension of the file name (at the end of a name without one).
DocumentedOutFilePath(path, sfx) ==
    SubSeq(path, 1, ExtensionStart(path) - 1) \o sfx
        \o SubSeq(path, ExtensionStart(path), Len(path))

\* C12 as stated: for every path and suffix, every converted file is
\* written in the directory of the original with the suffix immediately
\* before the extension of the file name (the input path itself for an
\* empty suffix), also when the file name has no extension or the directory
\* part contains a '.'.
C12_SuffixBeforeExtension ==
    /\ filesStatus # "std::out_of_range"
    /\ \A k \in DOMAIN written :
          written[k].path =
              DocumentedOutFilePath(filePaths[written[k].from].path, suffix)

\* C12, for a file name with an extension or an empty suffix: the output
\* path is the documented one, whatever the directory part contains.
C12_NameWithExtension ==
    /\ \A k \in DOMAIN written :
          LET path == filePaths[written[k].from].path
          IN  (HasExtension(path) \/ suffix = <<>>) =>
                 written[k].path = DocumentedOutFilePath(path, suffix)
    /\ filesStatus = "std::out_of_range" =>
          /\ ~HasExtension(filePaths[nextFile].path)
          /\ suffix # <<>>

====
